---- MODULE Spec2Model ----
(***************************************************************************)
(* Memristor logic-gate demo: the mMPU simulator (createMPUSimulator), the *)
(* gate catalog (GATES), the reference truth function (computeTruth) and   *)
(* the App component's state, handlers, timers and effects.                *)
(*                                                                         *)
(* JavaScript values that can be something else than a number are kept     *)
(* tagged (JSNum, JSStr, JSNull); cell states and the input bits are       *)
(* always numbers in the code and are kept as integers.                    *)
(***************************************************************************)
EXTENDS Integers, Sequences, FiniteSets, TLC

VARIABLES
  selectedGate,    \* useState('NOT')
  inputs,          \* useState({A:0, B:0})
  rows,            \* useState(2)
  cols,            \* useState(4)
  memristors,      \* the simulator's Map: id -> {state, history}
  snapshot,        \* useState({}): the last sim.snapshot() handed to the view
  output,          \* useState(null)
  crossbar,        \* useState(4x4 of {state, selector})
  drivenWL,        \* useState([false,false,false,false])
  vDrive,          \* useState(DEFAULT_VDRIVE)
  advancedSim,     \* useState({currents, blTotals})
  instructionLog,  \* useState([])
  timers,          \* pending setTimeout callbacks, in the order they were set
  dirty,           \* effect dependencies changed since the last commit
  last,            \* the call or event that produced this state, with its result
  budget           \* user events still allowed in this behaviour

vars == <<selectedGate, inputs, rows, cols, memristors, snapshot, output,
          crossbar, drivenWL, vDrive, advancedSim, instructionLog, timers,
          dirty, last, budget>>

appVars == <<selectedGate, inputs, rows, cols, output, crossbar, drivenWL,
             vDrive, advancedSim, instructionLog, timers, dirty, budget>>

----------------------------------------------------------------------------
(* Bounds *)

\* a cell's history is kept as its length, counted up to MaxHist ("or more")
MaxHist == 1

\* user events (clicks, selections) in one behaviour of the App
MaxEvents == 3

----------------------------------------------------------------------------
(* JavaScript values *)

JSNum(n) == [t |-> "number", v |-> n]
JSStr(s) == [t |-> "string", s |-> s]
JSNull == [t |-> "null"]

\* ToBoolean, as `val ? 1 : 0` applies it
Truthy(x) ==
  \/ x.t = "number" /\ x.v # 0
  \/ x.t = "string" /\ x.s # ""

\* a ^ b on the bits 0 and 1
BitXor(a, b) == (a + b) % 2

----------------------------------------------------------------------------
(* createMPUSimulator *)

makeId(r, c) == "m-" \o ToString(r) \o "-" \o ToString(c)

\* history.push(...): only the number of entries is kept
push(n) == IF n < MaxHist THEN n + 1 ELSE MaxHist

newCell == [state |-> 0, history |-> 0]

ensure(m, r, c) ==
  IF makeId(r, c) \in DOMAIN m THEN m ELSE m @@ (makeId(r, c) :> newCell)

\* MNOT with the branches of `m.state ? 0 : 1` swapped
MNOT_SwappedBranches(m, target) ==
  LET m1 == ensure(m, target.r, target.c)
      id == makeId(target.r, target.c)
  IN  [m1 EXCEPT ![id] = [state   |-> IF @.state # 0 THEN 1 ELSE 0,
                          history |-> push(@.history)]]

MNOT(m, target) ==
  LET m1 == ensure(m, target.r, target.c)
      id == makeId(target.r, target.c)
  IN  [m1 EXCEPT ![id] = [state   |-> IF @.state # 0 THEN 0 ELSE 1,
                          history |-> push(@.history)]]

\* MNOR computing !(a && b) in place of !(a || b)
MNOR_AndForOr(m, target, a, b) ==
  LET m1  == ensure(m, a.r, a.c)
      ma  == m1[makeId(a.r, a.c)].state
      m2  == ensure(m1, b.r, b.c)
      mb  == m2[makeId(b.r, b.c)].state
      res == IF ma # 0 /\ mb # 0 THEN 0 ELSE 1
      m3  == ensure(m2, target.r, target.c)
  IN  [m3 EXCEPT ![makeId(target.r, target.c)] =
                     [state |-> res, history |-> push(@.history)]]

MNOR(m, target, a, b) ==
  LET m1  == ensure(m, a.r, a.c)
      ma  == m1[makeId(a.r, a.c)].state
      m2  == ensure(m1, b.r, b.c)
      mb  == m2[makeId(b.r, b.c)].state
      res == IF ma # 0 \/ mb # 0 THEN 0 ELSE 1
      m3  == ensure(m2, target.r, target.c)
  IN  [m3 EXCEPT ![makeId(target.r, target.c)] =
                     [state |-> res, history |-> push(@.history)]]

\* resetGrid without memristors.clear()
resetGrid_NoClear(m, nrows, ncols) ==
  [id \in DOMAIN m \cup {makeId(r, c) : r \in 0..(nrows - 1), c \in 0..(ncols - 1)}
     |-> IF id \in DOMAIN m THEN m[id] ELSE newCell]

\* memristors.clear() drops every entry of m; then ensure(r, c) for every
\* r < nrows, c < ncols
resetGrid(m, nrows, ncols) ==
  [id \in {makeId(r, c) : r \in 0..(nrows - 1), c \in 0..(ncols - 1)} |-> newCell]

\* setState storing a number as it is given (m.state = val)
setState_RawValue(m, r, c, val) ==
  LET m1 == ensure(m, r, c)
  IN  [m1 EXCEPT ![makeId(r, c)] =
                     [state   |-> IF val.t = "number" THEN val.v ELSE 0,
                      history |-> push(@.history)]]

setState(m, r, c, val) ==
  LET m1 == ensure(m, r, c)
  IN  [m1 EXCEPT ![makeId(r, c)] =
                     [state   |-> IF Truthy(val) THEN 1 ELSE 0,
                      history |-> push(@.history)]]

\* getState returns ensure(r,c).state; the Map it leaves behind is ensure(m,r,c)
getState(m, r, c) == ensure(m, r, c)[makeId(r, c)].state

sim_snapshot_DropsZeros(m) ==
  [k \in {j \in DOMAIN m : m[j].state # 0} |-> [state |-> m[k].state]]

sim_snapshot(m) == [k \in DOMAIN m |-> [state |-> m[k].state]]

----------------------------------------------------------------------------
(* computeTruth *)

\* computeTruth with XNOR's branches as XOR's
computeTruth_XnorAsXor(gate, a, b) ==
  CASE gate = "NOT"  -> JSNum(IF a # 0 THEN 0 ELSE 1)
    [] gate = "AND"  -> JSNum(IF a # 0 /\ b # 0 THEN 1 ELSE 0)
    [] gate = "OR"   -> JSNum(IF a # 0 \/ b # 0 THEN 1 ELSE 0)
    [] gate = "NAND" -> JSNum(IF a # 0 /\ b # 0 THEN 0 ELSE 1)
    [] gate = "XOR"  -> JSNum(IF BitXor(a, b) # 0 THEN 1 ELSE 0)
    [] gate = "XNOR" -> JSNum(IF BitXor(a, b) # 0 THEN 1 ELSE 0)
    [] OTHER         -> JSStr("-")

computeTruth(gate, a, b) ==
  CASE gate = "NOT"  -> JSNum(IF a # 0 THEN 0 ELSE 1)
    [] gate = "AND"  -> JSNum(IF a # 0 /\ b # 0 THEN 1 ELSE 0)
    [] gate = "OR"   -> JSNum(IF a # 0 \/ b # 0 THEN 1 ELSE 0)
    [] gate = "NAND" -> JSNum(IF a # 0 /\ b # 0 THEN 0 ELSE 1)
    [] gate = "XOR"  -> JSNum(IF BitXor(a, b) # 0 THEN 1 ELSE 0)
    [] gate = "XNOR" -> JSNum(IF BitXor(a, b) # 0 THEN 0 ELSE 1)
    [] OTHER         -> JSStr("-")

----------------------------------------------------------------------------
(* Constants of the program *)

DEFAULT_VDRIVE == 1
RON == 1000
ROFF == 1000000

GateNames == {"NOT", "AND", "OR", "NAND", "XOR", "XNOR"}

----------------------------------------------------------------------------
(* GATES: layout and instructionSequence of each catalog entry.  An        *)
(* instruction written without an args key has hasArgs = FALSE.            *)

Ins(op, args) == [op |-> op, hasArgs |-> TRUE, args |-> args]
InsNoArgs(op) == [op |-> op, hasArgs |-> FALSE, args |-> <<>>]
At(r, c) == [r |-> r, c |-> c]

layoutRows(gate) ==
  CASE gate \in {"NOT", "AND", "OR", "NAND"} -> 1
    [] gate \in {"XOR", "XNOR"} -> 2

layoutCols(gate) ==
  CASE gate = "NOT" -> 3
    [] gate \in {"AND", "OR", "XOR", "XNOR"} -> 4
    [] gate = "NAND" -> 5

\* the sequences do not read their input argument
instructionSequence_SkipsOnZero(gate, input) ==
  CASE gate = "NOT" ->
         IF input.A = 0 THEN <<Ins("ISO", <<>>)>>
         ELSE <<Ins("ISO", <<>>), Ins("MNOT", <<At(0, 2)>>)>>
    [] gate = "AND" ->
         <<InsNoArgs("ISO"), Ins("MNOT", <<At(0, 1)>>), Ins("MNOT", <<At(0, 2)>>),
           Ins("MNOR", <<At(0, 3), At(0, 1), At(0, 2)>>)>>
    [] gate = "OR" ->
         <<InsNoArgs("ISO"), Ins("MNOR", <<At(0, 3), At(0, 0), At(0, 1)>>),
           Ins("MNOT", <<At(0, 3)>>)>>
    [] gate = "NAND" ->
         <<InsNoArgs("ISO"), Ins("MNOT", <<At(0, 1)>>), Ins("MNOT", <<At(0, 2)>>),
           Ins("MNOR", <<At(0, 3), At(0, 1), At(0, 2)>>), Ins("MNOT", <<At(0, 4)>>)>>
    [] gate \in {"XOR", "XNOR"} ->
         <<InsNoArgs("ISO"), InsNoArgs("MNOR"), InsNoArgs("MNOT"), InsNoArgs("COM")>>

instructionSequence(gate, input) ==
  CASE gate = "NOT" ->
         <<Ins("ISO", <<>>), Ins("MNOT", <<At(0, 2)>>)>>
    [] gate = "AND" ->
         <<InsNoArgs("ISO"), Ins("MNOT", <<At(0, 1)>>), Ins("MNOT", <<At(0, 2)>>),
           Ins("MNOR", <<At(0, 3), At(0, 1), At(0, 2)>>)>>
    [] gate = "OR" ->
         <<InsNoArgs("ISO"), Ins("MNOR", <<At(0, 3), At(0, 0), At(0, 1)>>),
           Ins("MNOT", <<At(0, 3)>>)>>
    [] gate = "NAND" ->
         <<InsNoArgs("ISO"), Ins("MNOT", <<At(0, 1)>>), Ins("MNOT", <<At(0, 2)>>),
           Ins("MNOR", <<At(0, 3), At(0, 1), At(0, 2)>>), Ins("MNOT", <<At(0, 4)>>)>>
    [] gate \in {"XOR", "XNOR"} ->
         <<InsNoArgs("ISO"), InsNoArgs("MNOR"), InsNoArgs("MNOT"), InsNoArgs("COM")>>

----------------------------------------------------------------------------
(* runGate's switch (ins.op) *)

\* ins.args[k] of a missing args, or .r of a missing element, is a TypeError
Throws(ins) ==
  \/ ins.op = "MNOT" /\ (~ins.hasArgs \/ Len(ins.args) < 1)
  \/ ins.op = "MNOR" /\ (~ins.hasArgs \/ Len(ins.args) < 3)

\* the Map after the instruction; ISO, COM, JSET, JRES and any other op
\* leave it as it is
Execute_UnknownClears(m, ins) ==
  CASE ins.op = "MNOT" -> MNOT(m, ins.args[1])
    [] ins.op = "MNOR" -> MNOR(m, ins.args[1], ins.args[2], ins.args[3])
    [] ins.op \in {"ISO", "COM", "JSET", "JRES"} -> m
    [] OTHER -> [k \in DOMAIN m |-> [m[k] EXCEPT !.state = 0]]

Execute(m, ins) ==
  CASE ins.op = "MNOT" -> MNOT(m, ins.args[1])
    [] ins.op = "MNOR" -> MNOR(m, ins.args[1], ins.args[2], ins.args[3])
    [] OTHER -> m

----------------------------------------------------------------------------
(* updateCrossbar and the read model of the third effect.  Conductances    *)
(* are in microsiemens and currents in microamperes, so that 1/RON, 1/ROFF *)
(* and the threshold are integers.                                         *)

updateCrossbar(gate, A, B, out) ==
  [r \in 0..3 |-> [c \in 0..3 |->
     IF r = 0 /\ c = 0
       THEN [logic |-> JSNum(A), state |-> IF A = 1 THEN "RON" ELSE "ROFF",
             selector |-> TRUE]
     ELSE IF r = 0 /\ c = 1
       THEN [logic |-> JSNum(B), state |-> IF B = 1 THEN "RON" ELSE "ROFF",
             selector |-> TRUE]
     ELSE IF r = 1 /\ c = 0
       THEN [logic |-> out, state |-> IF out = JSNum(1) THEN "RON" ELSE "ROFF",
             selector |-> TRUE]
     ELSE [logic |-> JSStr(" "), state |-> "INTER", selector |-> TRUE]]]

newDriven_AllRows(inp) == [r \in 0..3 |-> IF r = 0 THEN inp.A # 0
                                          ELSE IF r = 1 THEN inp.B # 0 ELSE TRUE]

newDriven(inp) == [r \in 0..3 |-> IF r = 0 THEN inp.A # 0
                                  ELSE IF r = 1 THEN inp.B # 0 ELSE FALSE]

Conductance_IgnoresSelector(cell) ==
  1000000 \div (IF cell.state = "RON" THEN RON ELSE ROFF)

Conductance(cell) ==
  IF ~cell.selector THEN 0
  ELSE 1000000 \div (IF cell.state = "RON" THEN RON ELSE ROFF)

Currents(xbar, inp, v) ==
  [r \in 0..3 |-> [c \in 0..3 |->
     ((IF newDriven(inp)[r] THEN v ELSE 0) - 0) * Conductance(xbar[r][c])]]

BlTotals(xbar, inp, v) ==
  [c \in 0..3 |-> Currents(xbar, inp, v)[0][c] + Currents(xbar, inp, v)[1][c]
                  + Currents(xbar, inp, v)[2][c] + Currents(xbar, inp, v)[3][c]]

\* (vDrive / RON) * 0.35
Threshold(v) == ((((v * 1000000) \div RON)) * 35) \div 100

Readout_AnyCurrent(xbar, inp, v) == IF BlTotals(xbar, inp, v)[0] > 0 THEN 1 ELSE 0

Readout(xbar, inp, v) == IF BlTotals(xbar, inp, v)[0] > Threshold(v) THEN 1 ELSE 0

----------------------------------------------------------------------------
(* State after construction: the useState initial values, an empty Map *)

InitRest ==
  /\ rows = 2
  /\ cols = 4
  /\ memristors = <<>>
  /\ snapshot = <<>>
  /\ output = JSNull
  /\ crossbar = [r \in 0..3 |-> [c \in 0..3 |-> [state |-> "ROFF", selector |-> TRUE]]]
  /\ drivenWL = [r \in 0..3 |-> FALSE]
  /\ vDrive = DEFAULT_VDRIVE
  /\ advancedSim = [currents |-> [r \in 0..3 |-> [c \in 0..3 |-> 0]],
                    blTotals |-> [c \in 0..3 |-> 0]]
  /\ instructionLog = <<>>
  /\ timers = <<>>
  /\ dirty = {"mount"}
  /\ last = [op |-> "init"]
  /\ budget = MaxEvents

Init ==
  /\ selectedGate = "NOT"
  /\ inputs = [A |-> 0, B |-> 0]
  /\ InitRest

----------------------------------------------------------------------------
(* The App: handlers, timers and effects.                                  *)
(*                                                                         *)
(* timers holds the pending setTimeout callbacks in the order they were    *)
(* set.  An entry of kind "apply" is the Apply button's                    *)
(* setTimeout(runGate, 40); an entry of kind "run" is a runGate paused in  *)
(* its 350 ms await after instruction idx.  Both carry the selectedGate    *)
(* and inputs of the render whose runGate they are.  The field seen        *)
(* records what happened around that run: "overlap" (another run was       *)
(* paused when it started), "run" (another run started after it),          *)
(* "selectGate", "other" (another user event after it started).            *)
(* Effects run in a commit that precedes every later event and timer.      *)

Settled == dirty = {}

Mark(ts, what) ==
  [i \in DOMAIN ts |-> IF ts[i].kind = "run"
                         THEN [ts[i] EXCEPT !.seen = @ \cup {what}] ELSE ts[i]]

Without(ts, i) == SubSeq(ts, 1, i - 1) \o SubSeq(ts, i + 1, Len(ts))

NewRun(gate, inp, ts) ==
  [kind |-> "run", gate |-> gate, A |-> inp.A, B |-> inp.B, idx |-> 0,
   seen |-> IF \E i \in DOMAIN ts : ts[i].kind = "run" THEN {"overlap"} ELSE {}]

\* runGate up to the loop: resetGrid, then the two seeds
Seeded(m, gate, inp) ==
  LET m0 == resetGrid(m, layoutRows(gate), layoutCols(gate))
      m1 == setState(m0, 0, 0, JSNum(IF inp.A # 0 THEN 1 ELSE 0))
  IN  IF "B" \in DOMAIN inp
        THEN setState(m1, 0, 1, JSNum(IF inp.B # 0 THEN 1 ELSE 0))
        ELSE m1

WithActive(seq, idx) ==
  [j \in DOMAIN seq |-> [op |-> seq[j].op, hasArgs |-> seq[j].hasArgs,
                         args |-> seq[j].args, active |-> (j - 1 = idx)]]

\* one turn of runGate's loop for instruction idx, from the Map m, with the
\* other pending timers ts; reset says whether this call began with resetGrid
LoopBody(m, run, idx, ts, reset) ==
  LET seq == instructionSequence(run.gate, [A |-> run.A, B |-> run.B])
      ins == seq[idx + 1]
      m1  == Execute(m, ins)
  IN  IF Throws(ins)
        THEN /\ memristors' = m
             /\ timers' = ts
             /\ last' = [op |-> "runError", gate |-> run.gate, A |-> run.A,
                         B |-> run.B, idx |-> idx, seen |-> run.seen,
                         reset |-> reset]
             /\ UNCHANGED <<snapshot, crossbar, instructionLog, dirty, output>>
        ELSE /\ snapshot' = sim_snapshot(m1)
             /\ memristors' = ensure(m1, 0, 3)
             /\ crossbar' = updateCrossbar(run.gate, run.A, run.B,
                                           JSNum(getState(m1, 0, 3)))
             /\ instructionLog' = WithActive(seq, idx)
             /\ timers' = Append(ts, [run EXCEPT !.idx = idx])
             /\ dirty' = {"crossbar"}
             /\ last' = [op |-> "runStep", gate |-> run.gate, A |-> run.A,
                         B |-> run.B, idx |-> idx, seen |-> run.seen,
                         reset |-> reset]
             /\ UNCHANGED output

\* after the loop: const out = sim.getState(0,3); setOutput(out)
Final(m, run, ts, reset) ==
  /\ memristors' = ensure(m, 0, 3)
  /\ output' = JSNum(getState(m, 0, 3))
  /\ timers' = ts
  /\ last' = [op |-> "runFinal", gate |-> run.gate, A |-> run.A, B |-> run.B,
              idx |-> Len(instructionSequence(run.gate, [A |-> run.A, B |-> run.B])),
              seen |-> run.seen, reset |-> reset]
  /\ UNCHANGED <<snapshot, crossbar, instructionLog, dirty>>

runGate(m, run, idx, ts, reset) ==
  IF idx < Len(instructionSequence(run.gate, [A |-> run.A, B |-> run.B]))
    THEN LoopBody(m, run, idx, ts, reset)
    ELSE Final(m, run, ts, reset)

\* the Run button: runGate of the current render
ClickRun ==
  /\ Settled /\ budget > 0
  /\ budget' = budget - 1
  /\ runGate(Seeded(memristors, selectedGate, inputs),
             NewRun(selectedGate, inputs, timers), 0, Mark(timers, "run"), TRUE)
  /\ UNCHANGED <<selectedGate, inputs, rows, cols, drivenWL, vDrive, advancedSim>>

\* a truth-table row's Apply: setInputs({A:a,B:b}); setTimeout(runGate, 40),
\* where runGate is the one of the render the button belongs to
ClickApply(a, b) ==
  /\ Settled /\ budget > 0
  /\ budget' = budget - 1
  /\ inputs' = [A |-> a, B |-> b]
  /\ dirty' = {"inputs"}
  /\ timers' = Append(Mark(timers, "other"),
                      [kind |-> "apply", gate |-> selectedGate, A |-> inputs.A,
                       B |-> inputs.B, idx |-> 0, seen |-> {}])
  /\ last' = [op |-> "clickApply", a |-> a, b |-> b]
  /\ UNCHANGED <<selectedGate, rows, cols, memristors, snapshot, output, crossbar,
                 drivenWL, vDrive, advancedSim, instructionLog>>

\* the 40 ms timer of an Apply fires: no Apply set earlier is still pending
ApplyFires(i) ==
  /\ Settled
  /\ timers[i].kind = "apply"
  /\ \A j \in 1..(i - 1) : timers[j].kind # "apply"
  /\ runGate(Seeded(memristors, timers[i].gate, [A |-> timers[i].A, B |-> timers[i].B]),
             NewRun(timers[i].gate, [A |-> timers[i].A, B |-> timers[i].B],
                    Without(timers, i)),
             0, Mark(Without(timers, i), "run"), TRUE)
  /\ UNCHANGED <<selectedGate, inputs, rows, cols, drivenWL, vDrive, advancedSim,
                 budget>>

\* the 350 ms timer of a paused run fires: no timer set earlier is pending
RunResumes ==
  /\ Settled
  /\ timers # <<>>
  /\ timers[1].kind = "run"
  /\ runGate(memristors, timers[1], timers[1].idx + 1, Tail(timers), FALSE)
  /\ UNCHANGED <<selectedGate, inputs, rows, cols, drivenWL, vDrive, advancedSim,
                 budget>>

\* the select's onChange
SelectGate(gate) ==
  /\ Settled /\ budget > 0
  /\ gate # selectedGate
  /\ budget' = budget - 1
  /\ selectedGate' = gate
  /\ dirty' = {"selectedGate"}
  /\ timers' = Mark(timers, "selectGate")
  /\ last' = [op |-> "selectGate", gate |-> gate]
  /\ UNCHANGED <<inputs, rows, cols, memristors, snapshot, output, crossbar,
                 drivenWL, vDrive, advancedSim, instructionLog>>

toggleInput(name) ==
  /\ Settled /\ budget > 0
  /\ budget' = budget - 1
  /\ inputs' = [inputs EXCEPT ![name] = IF @ # 0 THEN 0 ELSE 1]
  /\ dirty' = {"inputs"}
  /\ timers' = Mark(timers, "other")
  /\ last' = [op |-> "toggleInput", name |-> name]
  /\ UNCHANGED <<selectedGate, rows, cols, memristors, snapshot, output, crossbar,
                 drivenWL, vDrive, advancedSim, instructionLog>>

\* the Reset button
ClickReset ==
  /\ Settled /\ budget > 0
  /\ budget' = budget - 1
  /\ memristors' = resetGrid(memristors, rows, cols)
  /\ snapshot' = sim_snapshot(resetGrid(memristors, rows, cols))
  /\ instructionLog' = <<>>
  /\ output' = JSNull
  /\ timers' = Mark(timers, "other")
  /\ last' = [op |-> "clickReset", reset |-> TRUE]
  /\ UNCHANGED <<selectedGate, inputs, rows, cols, crossbar, drivenWL, vDrive,
                 advancedSim, dirty>>

\* a click on cell (r, c) of the GridVisualizer, which shows rows x cols cells
toggleCell(r, c) ==
  /\ Settled /\ budget > 0
  /\ r < rows /\ c < cols
  /\ budget' = budget - 1
  /\ memristors' = setState(memristors, r, c,
                            JSNum(IF getState(memristors, r, c) # 0 THEN 0 ELSE 1))
  /\ snapshot' = sim_snapshot(memristors')
  /\ timers' = Mark(timers, "other")
  /\ last' = [op |-> "toggleCell", r |-> r, c |-> c]
  /\ UNCHANGED <<selectedGate, inputs, rows, cols, output, crossbar, drivenWL,
                 vDrive, advancedSim, instructionLog, dirty>>

toggleCrossbarState(r, c) ==
  /\ Settled /\ budget > 0
  /\ budget' = budget - 1
  /\ crossbar' = [crossbar EXCEPT ![r][c].state = IF @ = "RON" THEN "ROFF" ELSE "RON"]
  /\ dirty' = {"crossbar"}
  /\ timers' = Mark(timers, "other")
  /\ last' = [op |-> "toggleCrossbarState", r |-> r, c |-> c]
  /\ UNCHANGED <<selectedGate, inputs, rows, cols, memristors, snapshot, output,
                 drivenWL, vDrive, advancedSim, instructionLog>>

toggleSelector(r, c) ==
  /\ Settled /\ budget > 0
  /\ budget' = budget - 1
  /\ crossbar' = [crossbar EXCEPT ![r][c].selector = ~@]
  /\ dirty' = {"crossbar"}
  /\ timers' = Mark(timers, "other")
  /\ last' = [op |-> "toggleSelector", r |-> r, c |-> c]
  /\ UNCHANGED <<selectedGate, inputs, rows, cols, memristors, snapshot, output,
                 drivenWL, vDrive, advancedSim, instructionLog>>

\* One commit: the effects whose dependencies changed, in the order they are
\* declared, each reading the state of the render; the state they set is
\* applied together, the last setOutput winning.
GridEffect == dirty \cap {"mount", "selectedGate"} # {}
TruthEffect_DependsOnCrossbar ==
  dirty \cap {"mount", "selectedGate", "inputs", "crossbar"} # {}
TruthEffect == dirty \cap {"mount", "selectedGate", "inputs"} # {}
ReadEffect_NoCrossbarDep == dirty \cap {"mount", "inputs", "vDrive"} # {}
ReadEffect == dirty \cap {"mount", "inputs", "crossbar", "vDrive"} # {}

Commit ==
  /\ ~Settled
  /\ IF GridEffect
       THEN /\ rows' = layoutRows(selectedGate)
            /\ cols' = layoutCols(selectedGate)
            /\ memristors' = resetGrid(memristors, layoutRows(selectedGate),
                                       layoutCols(selectedGate))
            /\ snapshot' = sim_snapshot(memristors')
            /\ instructionLog' = <<>>
       ELSE UNCHANGED <<rows, cols, memristors, snapshot, instructionLog>>
  /\ IF TruthEffect
       THEN /\ crossbar' = updateCrossbar(selectedGate, inputs.A, inputs.B,
                              computeTruth(selectedGate, inputs.A, inputs.B))
            /\ dirty' = {"crossbar"}
       ELSE /\ dirty' = {}
            /\ UNCHANGED crossbar
  /\ IF ReadEffect
       THEN /\ drivenWL' = newDriven(inputs)
            /\ advancedSim' = [currents |-> Currents(crossbar, inputs, vDrive),
                               blTotals |-> BlTotals(crossbar, inputs, vDrive)]
       ELSE UNCHANGED <<drivenWL, advancedSim>>
  /\ output' = IF ReadEffect THEN JSNum(Readout(crossbar, inputs, vDrive))
               ELSE IF TruthEffect
                 THEN computeTruth(selectedGate, inputs.A, inputs.B)
               ELSE IF GridEffect THEN JSNull
               ELSE output
  /\ last' = [op |-> "commit",
              cause |-> IF last.op = "commit" THEN last.cause ELSE last.op,
              reset |-> GridEffect]
  /\ UNCHANGED <<selectedGate, inputs, vDrive, timers, budget>>

\* the cells of the grid view and of the 4x4 crossbar view that are clicked
GridClicks == {<<0, 0>>, <<0, 2>>, <<0, 3>>, <<1, 1>>}
CrossbarClicks == {<<0, 0>>, <<1, 0>>, <<2, 3>>}

Next ==
  \/ Commit
  \/ ClickRun
  \/ \E a \in {0, 1}, b \in {0, 1} : ClickApply(a, b)
  \/ \E i \in DOMAIN timers : ApplyFires(i)
  \/ RunResumes
  \/ \E gate \in GateNames : SelectGate(gate)
  \/ \E name \in {"A", "B"} : toggleInput(name)
  \/ ClickReset
  \/ \E p \in GridClicks : toggleCell(p[1], p[2])
  \/ \E p \in CrossbarClicks : toggleCrossbarState(p[1], p[2])
  \/ \E p \in CrossbarClicks : toggleSelector(p[1], p[2])

Spec == Init /\ [][Next]_vars

\* React runs the effects of a render whose dependencies changed: a pending
\* commit is not postponed forever
SpecLive == Spec /\ WF_vars(Commit)

----------------------------------------------------------------------------
(* The simulator called directly, with any arguments *)

\* coordinates and values the calls are made with
EngineCoords == {[r |-> 0, c |-> 0], [r |-> 0, c |-> 1], [r |-> 1, c |-> 0]}
ResetDims == {<<0, 0>>, <<1, 1>>, <<1, 2>>, <<2, 1>>}
EngineVals == {JSNum(0), JSNum(1), JSNum(2), JSNull}

CallResetGrid(nrows, ncols) ==
  /\ memristors' = resetGrid(memristors, nrows, ncols)
  /\ last' = [op |-> "resetGrid", nrows |-> nrows, ncols |-> ncols,
              had1 |-> \E k \in DOMAIN memristors : memristors[k].state = 1]
  /\ UNCHANGED <<appVars, snapshot>>

CallSetState(p, val) ==
  /\ memristors' = setState(memristors, p.r, p.c, val)
  /\ last' = [op |-> "setState", r |-> p.r, c |-> p.c, val |-> val,
              unseen |-> makeId(p.r, p.c) \notin DOMAIN memristors]
  /\ UNCHANGED <<appVars, snapshot>>

CallGetState(p) ==
  /\ memristors' = ensure(memristors, p.r, p.c)
  /\ last' = [op |-> "getState", r |-> p.r, c |-> p.c,
              ret |-> getState(memristors, p.r, p.c),
              unseen |-> makeId(p.r, p.c) \notin DOMAIN memristors]
  /\ UNCHANGED <<appVars, snapshot>>

CallMNOT(target) ==
  /\ memristors' = MNOT(memristors, target)
  /\ last' = [op |-> "MNOT", target |-> target,
              was |-> getState(memristors, target.r, target.c),
              ret |-> MNOT(memristors, target)[makeId(target.r, target.c)].state]
  /\ UNCHANGED <<appVars, snapshot>>

CallMNOR(target, a, b) ==
  /\ memristors' = MNOR(memristors, target, a, b)
  /\ last' = [op |-> "MNOR", target |-> target, a |-> a, b |-> b,
              ma |-> getState(memristors, a.r, a.c),
              mb |-> getState(memristors, b.r, b.c),
              ret |-> MNOR(memristors, target, a, b)[makeId(target.r, target.c)].state]
  /\ UNCHANGED <<appVars, snapshot>>

\* the op-codes with an empty body (COM, ISO, JSET, JRES) and one that no
\* case of the switch matches
ControlOps == {"COM", "ISO", "JSET", "JRES", "NOP"}

\* the switch on an instruction with such an op-code and no args
CallControl(op) ==
  /\ memristors' = Execute(memristors, InsNoArgs(op))
  /\ last' = [op |-> op]
  /\ UNCHANGED <<appVars, snapshot>>

CallSnapshot ==
  /\ snapshot' = sim_snapshot(memristors)
  /\ last' = [op |-> "snapshot"]
  /\ UNCHANGED <<appVars, memristors>>

NextEngine ==
  \/ \E d \in ResetDims : CallResetGrid(d[1], d[2])
  \/ \E p \in EngineCoords, val \in EngineVals : CallSetState(p, val)
  \/ \E p \in EngineCoords : CallGetState(p)
  \/ \E t \in EngineCoords : CallMNOT(t)
  \/ \E t \in EngineCoords, a \in EngineCoords, b \in EngineCoords : CallMNOR(t, a, b)
  \/ \E op \in ControlOps : CallControl(op)

SpecEngine == Init /\ [][NextEngine]_vars

\* the same calls on two coordinates, with snapshot() taken between them
SnapCoords == {[r |-> 0, c |-> 0], [r |-> 0, c |-> 1]}
SnapDims == {<<0, 0>>, <<1, 1>>, <<1, 2>>}

NextSnapshot ==
  \/ CallSnapshot
  \/ \E d \in SnapDims : CallResetGrid(d[1], d[2])
  \/ \E p \in SnapCoords, val \in EngineVals : CallSetState(p, val)
  \/ \E p \in SnapCoords : CallGetState(p)
  \/ \E t \in SnapCoords : CallMNOT(t)
  \/ \E t \in SnapCoords, a \in SnapCoords, b \in SnapCoords : CallMNOR(t, a, b)

SpecSnapshot == Init /\ [][NextSnapshot]_vars

----------------------------------------------------------------------------
(* computeTruth applied as the truth table applies it: to the selected     *)
(* gate and each row (a, b), for every gate and every inputs               *)

TruthGates == GateNames \cup {"BUF"}

InitTruth ==
  /\ selectedGate \in TruthGates
  /\ inputs \in [A : {0, 1}, B : {0, 1}]
  /\ InitRest

TruthTableCell(a, b) ==
  /\ last' = [op |-> "computeTruth", gate |-> selectedGate, a |-> a, b |-> b,
              ret |-> computeTruth(selectedGate, a, b)]
  /\ UNCHANGED <<appVars, snapshot, memristors>>

\* the auto-run effect's call: computeTruth(gate, A, B) on the current inputs
TruthOfInputs ==
  /\ last' = [op |-> "computeTruth", gate |-> selectedGate,
              a |-> inputs.A, b |-> inputs.B,
              ret |-> computeTruth(selectedGate, inputs.A, inputs.B)]
  /\ UNCHANGED <<appVars, snapshot, memristors>>

NextTruth ==
  \/ \E a \in {0, 1}, b \in {0, 1} : TruthTableCell(a, b)
  \/ TruthOfInputs

SpecTruth == InitTruth /\ [][NextTruth]_vars

----------------------------------------------------------------------------
(* Claims *)

\* C1: when a run of a catalog gate completes with no other run or user
\* action interleaved, the final output it reports equals the gate's
\* reference truth function applied to the run's inputs (A, B).
C1_RunReportsTruth ==
  (last.op = "runFinal" /\ last.seen = {})
    => output = computeTruth(last.gate, last.A, last.B)

\* C2: with no run in flight and the effects of the last input change or gate
\* selection settled, the displayed output bit equals the reference truth
\* function of the selected gate applied to the current inputs.
C2_DisplayedIsTruth ==
  (Settled /\ timers = <<>> /\ last.op = "commit"
     /\ last.cause \in {"toggleInput", "selectGate"})
    => output = computeTruth(selectedGate, inputs.A, inputs.B)

\* C3: no two runs interleave: once a newer run has started (and reset the
\* grid), a run that was paused before it applies no further instruction.
C3_NoInterleaving ==
  (last.op = "runStep" /\ ~last.reset) => "run" \notin last.seen

\* C4: after a gate is re-selected while a run is paused, the grid is reset to
\* the new gate's dimensions with every cell 0, and every instruction applied
\* afterwards belongs to a run started after the re-selection.
C4_ReselectCancels ==
  /\ (last.op = "commit" /\ last.reset)
       => memristors = [id \in {makeId(r, c) : r \in 0..(layoutRows(selectedGate) - 1),
                                              c \in 0..(layoutCols(selectedGate) - 1)}
                          |-> [state |-> 0, history |-> 0]]
  /\ last.op = "runStep" => "selectGate" \notin last.seen

\* C5: for every catalog gate and inputs, a run started from idle executes
\* every instruction of its sequence and reaches the final-output step
\* without raising an error part-way.
C5_RunRaisesNoError ==
  ~(last.op = "runError" /\ last.seen = {})

ActiveIdx(log) == CHOOSE j \in 0..(Len(log) - 1) : log[j + 1].active

StepResetsGrid ==
  /\ last'.op \in {"runStep", "runError", "runFinal", "commit", "clickReset"}
  /\ last'.reset

\* C6: between two consecutive grid resets the active instruction index shown
\* in the log never decreases, and it changes only in a step that applies one
\* instruction.
C6_ActiveIndexMonotone ==
  [][(instructionLog # <<>> /\ instructionLog' # <<>> /\ ~StepResetsGrid)
       => /\ ActiveIdx(instructionLog') >= ActiveIdx(instructionLog)
          /\ (ActiveIdx(instructionLog') # ActiveIdx(instructionLog)
                => last'.op = "runStep")]_vars

\* the conventional boolean functions, by their truth tables [a][b]
RefTable ==
  [NOT  |-> <<<<1, 1>>, <<0, 0>>>>,
   AND  |-> <<<<0, 0>>, <<0, 1>>>>,
   OR   |-> <<<<0, 1>>, <<1, 1>>>>,
   NAND |-> <<<<1, 1>>, <<1, 0>>>>,
   XOR  |-> <<<<0, 1>>, <<1, 0>>>>,
   XNOR |-> <<<<1, 0>>, <<0, 1>>>>]

\* C7: for every catalog gate G and bits a, b, computeTruth(G, a, b) is the
\* bit the conventional boolean function of G gives (NOT reads a only).
C7_ComputeTruthConventional ==
  (last.op = "computeTruth" /\ last.gate \in GateNames)
    => last.ret = JSNum(RefTable[last.gate][last.a + 1][last.b + 1])

C7_Witness ==
  /\ last.op = "computeTruth" /\ last.gate = "NAND"
  /\ last.a = 1 /\ last.b = 1 /\ last.ret = JSNum(0)

\* C8: after resetGrid(rows, cols), whatever calls preceded it, every cell
\* (r, c) with r < rows and c < cols exists and getState gives 0 for it, and
\* no cell from before the reset is left.
C8_ResetGridZero ==
  last.op = "resetGrid" =>
    /\ \A r \in 0..(last.nrows - 1), c \in 0..(last.ncols - 1) :
         /\ makeId(r, c) \in DOMAIN memristors
         /\ getState(memristors, r, c) = 0
    /\ \A k \in DOMAIN memristors :
         /\ memristors[k] = [state |-> 0, history |-> 0]
         /\ \E r \in 0..(last.nrows - 1), c \in 0..(last.ncols - 1) : k = makeId(r, c)

C8_Witness ==
  /\ last.op = "resetGrid" /\ last.had1
  /\ last.nrows = 1 /\ last.ncols = 2

\* C9: setState(r, c, v) followed at once by getState(r, c) gives 1 for a
\* truthy v and 0 for a falsy v, on a seen or an unseen coordinate; getState
\* on a coordinate never written gives 0.
C9_SetThenGet ==
  /\ last.op = "setState" =>
       getState(memristors, last.r, last.c)
         = (IF last.val \in {JSNum(1), JSNum(2)} THEN 1 ELSE 0)
  /\ (last.op = "getState" /\ last.unseen) => last.ret = 0
  /\ \A p \in EngineCoords :
       (makeId(p.r, p.c) \notin DOMAIN memristors
          \/ memristors[makeId(p.r, p.c)].history = 0)
         => getState(memristors, p.r, p.c) = 0

C9_Witness ==
  /\ last.op = "setState" /\ last.unseen /\ last.val = JSNum(2)
  /\ getState(memristors, last.r, last.c) = 1

\* C10: invert(target) changes the target's state from s to 1 - s and leaves
\* every other cell as it was; setState(r, c, 1) then invert on (r, c) leaves
\* getState(r, c) = 0, and a second invert restores the state before the
\* first.
C10_InvertFrame ==
  [][\A t \in EngineCoords :
       (last'.op = "MNOT" /\ last'.target = t) =>
         /\ getState(memristors', t.r, t.c) = 1 - getState(memristors, t.r, t.c)
         /\ DOMAIN memristors' = DOMAIN memristors \cup {makeId(t.r, t.c)}
         /\ \A k \in DOMAIN memristors \ {makeId(t.r, t.c)} :
              memristors'[k] = memristors[k]
         /\ (last.op = "setState" /\ last.r = t.r /\ last.c = t.c
               /\ last.val = JSNum(1))
              => getState(memristors', t.r, t.c) = 0
         /\ (last.op = "MNOT" /\ last.target = t)
              => getState(memristors', t.r, t.c) = last.was]_vars

C10_Witness ==
  /\ last.op = "MNOT" /\ last.was = 1 /\ last.ret = 0
  /\ \E k \in DOMAIN memristors :
       k # makeId(last.target.r, last.target.c) /\ memristors[k].state = 1

\* C11: norWrite(target, a, b) sets the target to 1 exactly when the states of
\* a and b read before the write are both 0, and to 0 otherwise; a and b keep
\* their states unless one of them is the target, and no other cell changes.
C11_NorWrite ==
  [][last'.op = "MNOR" =>
       LET t == last'.target
           a == last'.a
           b == last'.b
       IN  /\ getState(memristors', t.r, t.c)
                = (IF getState(memristors, a.r, a.c) = 0
                      /\ getState(memristors, b.r, b.c) = 0 THEN 1 ELSE 0)
           /\ last'.ret = getState(memristors', t.r, t.c)
           /\ \A p \in EngineCoords \ {t} :
                getState(memristors', p.r, p.c) = getState(memristors, p.r, p.c)
           /\ \A k \in DOMAIN memristors \ {makeId(t.r, t.c)} :
                memristors'[k] = memristors[k]
           /\ DOMAIN memristors' = DOMAIN memristors \cup
                {makeId(t.r, t.c), makeId(a.r, a.c), makeId(b.r, b.c)}]_vars

C11_Witness ==
  /\ last.op = "MNOR" /\ last.ma = 0 /\ last.mb = 0 /\ last.ret = 1
  /\ \E k \in DOMAIN memristors :
       k # makeId(last.target.r, last.target.c) /\ memristors[k].state = 1

\* C12: in a read computation the current of cell (r, c) is 0 when its row is
\* not driven or its selector is disabled, vDrive / R_low when the row is
\* driven and the cell is enabled and low-resistance, vDrive / R_high when it
\* is driven, enabled and high-resistance; with no row driven every current
\* is 0. Currents are in microamperes.
C12_CellCurrents ==
  [][(last'.op = "commit" /\ ReadEffect) =>
       /\ \A r \in 0..3, c \in 0..3 :
            LET cell == crossbar[r][c]
                I == advancedSim'.currents[r][c]
                driven == drivenWL'[r]
            IN  /\ (~driven \/ ~cell.selector) => I = 0
                /\ (driven /\ cell.selector /\ cell.state = "RON")
                     => I = (vDrive * 1000000) \div RON
                /\ (driven /\ cell.selector /\ cell.state = "ROFF")
                     => I = (vDrive * 1000000) \div ROFF
       /\ (\A r \in 0..3 : ~drivenWL'[r])
            => \A r \in 0..3, c \in 0..3 : advancedSim'.currents[r][c] = 0]_vars

C12_Witness ==
  /\ last.op = "commit" /\ Settled
  /\ drivenWL[0] /\ drivenWL[1]
  /\ ~crossbar[0][0].selector /\ advancedSim.currents[0][0] = 0
  /\ crossbar[0][1].state = "RON" /\ advancedSim.currents[0][1] = 1000
  /\ crossbar[1][0].state = "ROFF" /\ advancedSim.currents[1][0] = 1

\* C13: the readout of a read computation is 1 exactly when the total current
\* of bit line 0 is strictly greater than 0.35 * vDrive / R_low and 0 otherwise;
\* with every selector disabled, or with no row driven, the readout is 0.
C13_ReadoutThreshold ==
  [][(last'.op = "commit" /\ ReadEffect) =>
       LET I == advancedSim'.currents
           total == I[0][0] + I[1][0] + I[2][0] + I[3][0]
       IN  /\ output' = JSNum(IF total * 100 > 35 * ((vDrive * 1000000) \div RON)
                                THEN 1 ELSE 0)
           /\ (\A r \in 0..3, c \in 0..3 : ~crossbar[r][c].selector)
                => output' = JSNum(0)
           /\ (\A r \in 0..3 : ~drivenWL'[r]) => output' = JSNum(0)]_vars

C13_Witness ==
  /\ last.op = "commit" /\ Settled
  /\ drivenWL[1] /\ crossbar[1][0].selector
  /\ advancedSim.blTotals[0] > 0
  /\ output = JSNum(0)

\* C14: in every read computation row 0 is driven exactly when input A is 1,
\* row 1 exactly when input B is 1, and rows 2 and 3 are never driven (their
\* cells carry no current).
C14_DrivenRows ==
  [][(last'.op = "commit" /\ ReadEffect) =>
       /\ drivenWL'[0] <=> (inputs.A = 1)
       /\ drivenWL'[1] <=> (inputs.B = 1)
       /\ ~drivenWL'[2] /\ ~drivenWL'[3]
       /\ \A c \in 0..3 : /\ advancedSim'.currents[2][c] = 0
                           /\ advancedSim'.currents[3][c] = 0
       /\ \A c \in 0..3 :
            /\ (advancedSim'.currents[0][c] # 0) => inputs.A = 1
            /\ (advancedSim'.currents[1][c] # 0) => inputs.B = 1]_vars

C14_Witness ==
  /\ last.op = "commit" /\ Settled
  /\ inputs.A = 1 /\ inputs.B = 0
  /\ drivenWL[0] /\ ~drivenWL[1] /\ ~drivenWL[2] /\ ~drivenWL[3]
  /\ advancedSim.currents[0][0] > 0
  /\ crossbar[2][3].selector /\ advancedSim.currents[2][3] = 0

\* C15: the instruction sequence a run displays and executes does not depend
\* on the inputs of the run; for AND it is exactly isolate, invert, invert,
\* norWrite and for NOT exactly isolate, invert.
C15_SequenceFixed ==
  last.op = "runStep" =>
    LET ops == [j \in DOMAIN instructionLog |-> instructionLog[j].op]
    IN  /\ last.gate = "AND" => ops = <<"ISO", "MNOT", "MNOT", "MNOR">>
        /\ last.gate = "NOT" => ops = <<"ISO", "MNOT">>
        /\ \A a \in {0, 1}, b \in {0, 1} :
             instructionLog
               = WithActive(instructionSequence(last.gate, [A |-> a, B |-> b]),
                            last.idx)

C15_Witness ==
  /\ last.op = "runStep" /\ last.gate = "AND" /\ last.A = 1
  /\ Len(instructionLog) = 4 /\ instructionLog[4].op = "MNOR"

\* C16: in every reachable state every cell of the 4x4 crossbar has one of the
\* two named resistance states, low (RON) or high (ROFF).
C16_TwoLevels ==
  \A r \in 0..3, c \in 0..3 : crossbar[r][c].state \in {"RON", "ROFF"}

\* C17: at the start of every run, started by Run or by a truth-table Apply,
\* the grid is reset (every cell but the seeds is 0), cell (0,0) holds the
\* current input A, and cell (0,1) holds the current input B when the gate
\* takes two inputs and 0 when the gate is NOT. The first instruction of
\* every sequence is isolate, so the state after a run's first step is the
\* seeded grid.
C17_RunSeedsCurrentInputs ==
  (last.op = "runStep" /\ last.reset /\ last.idx = 0) =>
    /\ getState(memristors, 0, 0) = inputs.A
    /\ getState(memristors, 0, 1) = (IF last.gate = "NOT" THEN 0 ELSE inputs.B)
    /\ \A k \in DOMAIN memristors \ {makeId(0, 0), makeId(0, 1)} :
         memristors[k].state = 0

\* C18: executing an instruction whose op-code is isolate, combine, jump-set
\* or jump-reset, or is not a recognised op-code, raises no error and leaves
\* every cell (state and history) and the set of known cells as they were.
C18_ControlOpsNoEffect ==
  [][last'.op \in ControlOps =>
       /\ ~Throws(InsNoArgs(last'.op))
       /\ DOMAIN memristors' = DOMAIN memristors
       /\ \A k \in DOMAIN memristors : memristors'[k] = memristors[k]]_vars

C18_Witness ==
  /\ last.op = "NOP"
  /\ \E k \in DOMAIN memristors : memristors[k].state = 1
  /\ \E k \in DOMAIN memristors : memristors[k].state = 0

\* C19: snapshot() returns a mapping whose keys are exactly the known cells,
\* each with its state at the time of the call, and a snapshot already
\* returned is not altered by a later setState, getState, invert, norWrite or
\* resetGrid.
C19_SnapshotPointInTime ==
  [][/\ last'.op = "snapshot" =>
          /\ DOMAIN snapshot' = DOMAIN memristors
          /\ \A k \in DOMAIN memristors :
               snapshot'[k] = [state |-> memristors[k].state]
          /\ memristors' = memristors
     /\ last'.op \in {"setState", "getState", "MNOT", "MNOR", "resetGrid"} =>
          snapshot' = snapshot]_vars

C19_Witness ==
  /\ last.op \in {"setState", "MNOT", "MNOR", "resetGrid"}
  /\ \E k \in DOMAIN snapshot :
       /\ snapshot[k].state = 1
       /\ k \in DOMAIN memristors => memristors[k].state = 0
  /\ \E k \in DOMAIN snapshot : snapshot[k].state = 0

\* C20: whenever all pending effects have settled, each stored per-cell
\* current equals the value recomputed from the current crossbar cells, the
\* current inputs and the drive voltage, and each stored column total equals
\* the sum of that column's stored currents over the four rows.
C20_SimNotStale ==
  Settled =>
    /\ \A r \in 0..3, c \in 0..3 :
         advancedSim.currents[r][c] = Currents(crossbar, inputs, vDrive)[r][c]
    /\ \A c \in 0..3 :
         advancedSim.blTotals[c]
           = advancedSim.currents[0][c] + advancedSim.currents[1][c]
             + advancedSim.currents[2][c] + advancedSim.currents[3][c]

C20_Witness ==
  /\ Settled /\ last.op = "commit"
  /\ last.cause \in {"toggleCrossbarState", "toggleSelector"}
  /\ advancedSim.blTotals[0] > 1001

\* C21: once the selector of a crossbar cell (r, c) is disabled it stays
\* disabled through every step other than the user's toggle of that cell's
\* selector (input changes, gate selections, run steps, effect commits), and
\* whenever the effects have settled the cell's stored current is 0.
C21_DisabledSelectorSticks ==
  [][\A r \in 0..3, c \in 0..3 :
       /\ (~crossbar[r][c].selector
            /\ ~(last'.op = "toggleSelector" /\ last'.r = r /\ last'.c = c))
             => ~crossbar'[r][c].selector
       /\ (Settled' /\ ~crossbar'[r][c].selector)
             => advancedSim'.currents[r][c] = 0]_vars

\* C22: in every state in which the grid has been initialised for the selected
\* gate, the set of known grid cells is exactly the gate's declared
\* coordinates [0, layoutRows) x [0, layoutCols); no cell outside them exists.
C22_KnownCellsAreDeclared ==
  (last.op # "init" /\ ~GridEffect) =>
    DOMAIN memristors
      = {makeId(r, c) : r \in 0..(layoutRows(selectedGate) - 1),
                        c \in 0..(layoutCols(selectedGate) - 1)}

\* C23: with no run in flight, the chain of effects triggered by a user event
\* (truth auto-run, crossbar remapping, current recomputation) reaches a
\* state with no effect pending; the effects do not re-trigger one another
\* forever.
C23_EffectsSettle == (~Settled /\ timers = <<>>) ~> Settled

C23_Witness ==
  /\ Settled /\ timers = <<>>
  /\ last.op = "commit"
  /\ last.cause \in {"toggleInput", "selectGate", "toggleCrossbarState"}
  /\ output # JSNull
====
